---- MODULE Spec2Model ----
(***************************************************************************)
(* Outbound IP Service (src/index.js, the revision with /aws-public-ip     *)
(* and /client-ip, lines 165-381): an express application with a request   *)
(* logging middleware, a DNS-resolving route and a caller-IP route.        *)
(*                                                                         *)
(* Text on which the code works character by character (addresses, the    *)
(* X-Forwarded-For header, the User-Agent header) is a sequence of         *)
(* one-character strings.  Text the code only passes along (URLs, host     *)
(* names, error messages, log phrases) is a TLA+ string.                   *)
(***************************************************************************)
EXTENDS Integers, Sequences, FiniteSets, TLC

VARIABLES
    env,        \* process.env.AWS_BASE_URL as found at startup
    pc,         \* per request: "idle", "awaiting", "sent", "finished"
    req,        \* per request: route, headers, peer address, requestId
    hostname,   \* per request: the handler's local const hostname
    lookups,    \* per request: number of dns.lookup calls made
    res,        \* per request: the responses sent, in order
    log,        \* console.log output of the process, in order
    lookup,     \* per request: how its dns.lookup promise settled
    issued,     \* request identifiers drawn so far
    ipIn,       \* validator harness: the string under test
    ipDone,     \* validator harness: whether isIPv4 has been applied
    ipOut       \* validator harness: what isIPv4 returned

vars == <<env, pc, req, hostname, lookups, lookup, res, log, issued, ipIn, ipDone, ipOut>>

serverVars == <<env, pc, req, hostname, lookups, lookup, res, log, issued>>
harnessVars == <<ipIn, ipDone, ipOut>>

----------------------------------------------------------------------------
(* Bounds of the model *)

MaxReqs == 2        \* requests in one run of the server
MaxXffLen == 4      \* longest generated X-Forwarded-For value
MaxParts == 5       \* most dot-separated parts in a generated validator input

----------------------------------------------------------------------------
(* JavaScript values that the handlers test for truthiness *)

Undefined == [t |-> "undefined", v |-> <<>>]
Null == [t |-> "null", v |-> <<>>]
Str(s) == [t |-> "string", v |-> s]

\* truthiness of undefined, null and strings
Truthy(x) == x.t = "string" /\ x.v # <<>>

\* a || b
Or(a, b) == IF Truthy(a) THEN a ELSE b

\* String(x), as RegExp.prototype.test coerces its argument
StringOf(x) ==
    CASE x.t = "string" -> x.v
      [] x.t = "null" -> <<"n", "u", "l", "l">>
      [] OTHER -> <<"u", "n", "d", "e", "f", "i", "n", "e", "d">>

Digits == {"0", "1", "2", "3", "4", "5", "6", "7", "8", "9"}

----------------------------------------------------------------------------
(* isIPv4: /^(25[0-5]|2[0-4]\d|1\d\d|[1-9]?\d)(\.(...)){3}$/.test(ip) *)

\* s[i..j-1] matches (25[0-5]|2[0-4]\d|1\d\d|[1-9]?\d)
OctetAlt(s, i, j) ==
    LET n == j - i IN
    \/ n = 3 /\ s[i] = "2" /\ s[i+1] = "5" /\ s[i+2] \in {"0", "1", "2", "3", "4", "5"}
    \/ n = 3 /\ s[i] = "2" /\ s[i+1] \in {"0", "1", "2", "3", "4"} /\ s[i+2] \in Digits
    \/ n = 3 /\ s[i] = "1" /\ s[i+1] \in Digits /\ s[i+2] \in Digits
    \/ n = 2 /\ s[i] \in Digits \ {"0"} /\ s[i+1] \in Digits
    \/ n = 1 /\ s[i] \in Digits

\* the positions at which a match of the octet group starting at i can end
OctetEnds(s, i) == {j \in (i+1)..(Len(s)+1) : j <= i + 3 /\ OctetAlt(s, i, j)}

\* the positions at which k repetitions of (\.octet) starting at i can end
RECURSIVE DotGroups(_, _, _)
DotGroups(s, i, k) ==
    IF k = 0 THEN {i}
    ELSE IF i <= Len(s) /\ s[i] = "."
         THEN UNION {DotGroups(s, j, k - 1) : j \in OctetEnds(s, i + 1)}
         ELSE {}

\* a variant whose octet alternative is \d{1,3}
IsIPv4AnyDigits(ip) ==
    LET s == StringOf(ip)
        Part(i, j) == j - i \in 1..3 /\ \A k \in i..(j-1) : s[k] \in Digits
        Ends(i) == {j \in (i+1)..(Len(s)+1) : Part(i, j)}
    IN \E j1 \in Ends(1) : j1 <= Len(s) /\ s[j1] = "." /\
       \E j2 \in Ends(j1+1) : j2 <= Len(s) /\ s[j2] = "." /\
       \E j3 \in Ends(j2+1) : j3 <= Len(s) /\ s[j3] = "." /\
       Len(s) + 1 \in Ends(j3+1)

isIPv4(ip) ==
    LET s == StringOf(ip) IN
    \E j \in OctetEnds(s, 1) : (Len(s) + 1) \in DotGroups(s, j, 3)

----------------------------------------------------------------------------
(* getClientIp and shortUa *)

Whitespace == {" "}

\* xff.split(",")[0]
RECURSIVE SplitFirst(_)
SplitFirst(s) ==
    IF s = <<>> \/ Head(s) = "," THEN <<>>
    ELSE <<Head(s)>> \o SplitFirst(Tail(s))

RECURSIVE TrimStart(_)
TrimStart(s) ==
    IF s # <<>> /\ Head(s) \in Whitespace THEN TrimStart(Tail(s)) ELSE s

RECURSIVE TrimEnd(_)
TrimEnd(s) ==
    IF s # <<>> /\ s[Len(s)] \in Whitespace
    THEN TrimEnd(SubSeq(s, 1, Len(s) - 1)) ELSE s

\* s.trim()
Trim(s) == TrimEnd(TrimStart(s))

\* the part of s after its last comma
RECURSIVE SplitLast(_)
SplitLast(s) ==
    IF \E i \in 1..Len(s) : s[i] = "," THEN SplitLast(Tail(s)) ELSE s

\* req.ip under app.set("trust proxy", 1): one hop of X-Forwarded-For is
\* trusted, so the address is the header's last entry, or the socket's peer
\* when the header has no entry
ReqIp(rq) ==
    IF rq.xff.t = "string" /\ Trim(SplitLast(rq.xff.v)) # <<>>
    THEN Str(Trim(SplitLast(rq.xff.v)))
    ELSE rq.remoteAddress

\* a variant that forgets .trim()
GetClientIpNoTrim(rq) ==
    IF rq.xff.t = "string" /\ Len(rq.xff.v) > 0
    THEN SplitFirst(rq.xff.v)
    ELSE Or(Or(ReqIp(rq), rq.remoteAddress), Str(<<>>)).v

getClientIp(rq) ==
    IF rq.xff.t = "string" /\ Len(rq.xff.v) > 0
    THEN Trim(SplitFirst(rq.xff.v))
    ELSE Or(Or(ReqIp(rq), rq.remoteAddress), Str(<<>>)).v

UaSliceLen == 120

shortUa(ua) ==
    IF ~Truthy(ua) THEN <<>>
    ELSE SubSeq(StringOf(ua), 1,
                IF Len(StringOf(ua)) < UaSliceLen THEN Len(StringOf(ua)) ELSE UaSliceLen)

----------------------------------------------------------------------------
(* Configuration read at startup *)

DefaultBaseUrl == "http://ec2-34-202-126-158.compute-1.amazonaws.com"

EnvUnset == [set |-> FALSE, v |-> ""]
EnvSet(s) == [set |-> TRUE, v |-> s]

\* the values of process.env.AWS_BASE_URL considered
EnvValues ==
    { EnvUnset, EnvSet(""), EnvSet("HTTP://Example.COM:8080/path"),
      EnvSet("file:///etc/hosts"), EnvSet("not a url") }

\* process.env.AWS_BASE_URL || "http://ec2-...": unset and "" are both falsy
AWS_BASE_URL == IF env.set /\ env.v # "" THEN env.v ELSE DefaultBaseUrl

\* new URL(s): whether it parses (it throws TypeError "Invalid URL" when it
\* does not) and the hostname property of the result, for the URLs considered
ParseURL(s) ==
    CASE s = DefaultBaseUrl ->
            [ok |-> TRUE, hostname |-> "ec2-34-202-126-158.compute-1.amazonaws.com", message |-> ""]
      [] s = "HTTP://Example.COM:8080/path" ->
            [ok |-> TRUE, hostname |-> "example.com", message |-> ""]
      [] s = "file:///etc/hosts" ->
            [ok |-> TRUE, hostname |-> "", message |-> ""]
      [] OTHER ->
            [ok |-> FALSE, hostname |-> "", message |-> "Invalid URL"]

----------------------------------------------------------------------------
(* Requests *)

Reqs == 1..MaxReqs

\* crypto.randomUUID(): the code only copies and prints the value, so a value
\* is named by the draw that produced it; two draws never give the same value
randomUUID == <<"uuid", Cardinality(issued) + 1>>

NoRequestId == <<"no-request-id">>

XffExample ==
    <<"2", "0", "3", ".", "0", ".", "1", "1", "3", ".", "1", "0", ",", " ",
      "1", "0", ".", "0", ".", "0", ".", "1">>

UaExample == <<"c", "u", "r", "l", "/", "8", ".", "0", ".", "1">>

PeerA == <<"1", "9", "8", ".", "5", "1", ".", "1", "0", "0", ".", "7">>
PeerB == <<":", ":", "1">>

\* header sets of the requests of the server runs
Headers ==
    { [xff |-> Undefined, ua |-> Undefined],
      [xff |-> Str(XffExample), ua |-> Str(UaExample)] }

HeadersPlain == { [xff |-> Undefined, ua |-> Undefined] }

Peers == {PeerA}

\* a request that has not arrived
NoReq == [route |-> "", xff |-> Undefined, ua |-> Undefined,
          remoteAddress |-> Undefined, requestId |-> <<>>]

\* the request as the middleware leaves it: req.requestId = requestId
NewReq(route, h, p, id) ==
    [route |-> route, xff |-> h.xff, ua |-> h.ua,
     remoteAddress |-> Str(p), requestId |-> id]

\* a variant of the handlers' first line that ignores req.requestId
RequestIdIgnored(rq) == NoRequestId

\* req.requestId || "no-request-id"
RequestIdOf(rq) == IF rq.requestId # <<>> THEN rq.requestId ELSE NoRequestId

----------------------------------------------------------------------------
(* The resolver: dns.promises.lookup(hostname, {family: 4}) *)

AddrA == <<"3", "4", ".", "2", "0", "2", ".", "1", "2", "6", ".", "1", "5", "8">>
AddrV6 == <<"2", "0", "0", "1", ":", "d", "b", "8", ":", ":", "1">>

NoResult == [address |-> Undefined, family |-> 0]
NoError == [code |-> "", message |-> ""]
Pending == [state |-> "pending", result |-> NoResult, error |-> NoError]
NotCalled == [state |-> "none", result |-> NoResult, error |-> NoError]

\* what the lookup can resolve to: node answers an empty hostname with a null
\* address without asking the system; otherwise the system resolver (or a
\* stub of it) answers, with an IPv4 address or with something else
ResolverResults(h) ==
    IF h = "" THEN {[address |-> Null, family |-> 4]}
    ELSE {[address |-> Str(AddrA), family |-> 4],
          [address |-> Str(AddrV6), family |-> 6]}

ErrorCodes == {"ENOTFOUND"}

\* the error a failed lookup rejects with
DnsError(code, h) ==
    [code |-> code, message |-> "getaddrinfo " \o code \o " " \o h]

\* the TypeError of new URL()
UrlError(url) == [code |-> "ERR_INVALID_URL", message |-> url.message]

----------------------------------------------------------------------------
(* Log lines and response bodies *)

EntryLog(rq, id) ==
    [tag |-> "-->", id |-> id, method |-> "GET", url |-> rq.route,
     callerIp |-> getClientIp(rq), ua |-> shortUa(rq.ua)]

FinishLog(rq, id, statusCode) ==
    [tag |-> "<--", id |-> id, method |-> "GET", url |-> rq.route,
     status |-> statusCode]

ResolvingLog(id, h) ==
    [tag |-> "Resolving AWS hostname via DNS", id |-> id, hostname |-> h,
     base |-> AWS_BASE_URL]

NonIPv4Log(id, h, lk) ==
    [tag |-> "DNS lookup returned non-IPv4", id |-> id, hostname |-> h, result |-> lk]

ResolvedLog(id, h, ip) ==
    [tag |-> "Resolved AWS IP OK", id |-> id, hostname |-> h, ip |-> ip]

ErrorLog(id, err) ==
    [tag |-> "Error resolving AWS IP", id |-> id, message |-> err.message]

ClientIpLog(id, callerIp, rq) ==
    [tag |-> "/client-ip called", id |-> id, callerIp |-> callerIp,
     xff |-> Or(rq.xff, Str(<<>>)).v]

\* a variant of the success body that reports the base URL as the hostname
OkBodyBaseUrl(ip, h) ==
    [status |-> 200,
     body |-> [ok |-> TRUE, method |-> "dns-lookup", ip |-> ip, hostname |-> AWS_BASE_URL]]

\* res.json({ok: true, method: "dns-lookup", ip, hostname})
OkResponse(ip, h) ==
    [status |-> 200,
     body |-> [ok |-> TRUE, method |-> "dns-lookup", ip |-> ip, hostname |-> h]]

\* a variant of the 502 body that reports only the address as raw
BadGatewayRawAddress(h, lk) ==
    [status |-> 502,
     body |-> [ok |-> FALSE, error |-> "DNS lookup did not return a valid IPv4 address",
               hostname |-> h, raw |-> lk.address]]

\* res.status(502).json({ok: false, error, hostname, raw: lookup})
BadGatewayResponse(h, lk) ==
    [status |-> 502,
     body |-> [ok |-> FALSE, error |-> "DNS lookup did not return a valid IPv4 address",
               hostname |-> h, raw |-> lk]]

\* a variant of the 500 body that reports the error code as the message
ErrorResponseCode(err) ==
    [status |-> 500,
     body |-> [ok |-> FALSE, error |-> "Failed to determine AWS public IP",
               message |-> err.code]]

\* a variant of the catch block that answers 502
ErrorResponseBadGateway(err) ==
    [status |-> 502,
     body |-> [ok |-> FALSE, error |-> "Failed to determine AWS public IP",
               message |-> err.message]]

\* res.status(500).json({ok: false, error, message: err.message})
ErrorResponse(err) ==
    [status |-> 500,
     body |-> [ok |-> FALSE, error |-> "Failed to determine AWS public IP",
               message |-> err.message]]

\* a variant of the /client-ip body that reports callerIp as forwardedFor
ClientIpResponseEcho(rq) ==
    [status |-> 200,
     body |-> [ok |-> TRUE, callerIp |-> getClientIp(rq),
               forwardedFor |-> Str(getClientIp(rq)),
               userAgent |-> Or(rq.ua, Null),
               requestId |-> RequestIdOf(rq)]]

\* res.json({ok: true, callerIp, forwardedFor, userAgent, requestId})
ClientIpResponse(rq) ==
    [status |-> 200,
     body |-> [ok |-> TRUE, callerIp |-> getClientIp(rq),
               forwardedFor |-> Or(rq.xff, Null),
               userAgent |-> Or(rq.ua, Null),
               requestId |-> RequestIdOf(rq)]]

\* res.json(swaggerSpec)
OpenapiResponse ==
    [status |-> 200,
     body |-> [openapi |-> "3.0.0", paths |-> {"/aws-public-ip", "/client-ip"}]]

----------------------------------------------------------------------------
(* The server.  Node runs one callback to completion at a time: a request's *)
(* arrival runs the middleware and the route handler up to its first await  *)
(* or its response; the settling of a lookup runs the rest of the handler.  *)

\* requests are numbered in their order of arrival
Arrives(r) == pc[r] = "idle" /\ (IF r = 1 THEN TRUE ELSE pc[r-1] # "idle")

\* a variant of line 292 that keeps the awaited result in a variable shared
\* by all requests, which a later settling overwrites
AwaitedShared(r, lk) ==
    IF \E q \in Reqs \ {r} : lookup[q].state = "resolved"
    THEN lookup[CHOOSE q \in Reqs \ {r} : lookup[q].state = "resolved"].result
    ELSE lk

\* const lookup = await dns.lookup(...): the value the await yields to r
Awaited(r, lk) == lk

Send(r, response) == res' = [res EXCEPT ![r] = Append(@, response)]

\* GET /aws-public-ip: the middleware, then the handler up to its await, or
\* through its catch block when new URL() throws
AwsPublicIpRoute(r, h, p) ==
    /\ Arrives(r)
    /\ \E id \in {randomUUID} :
         LET rq == NewReq("/aws-public-ip", h, p, id)
             url == ParseURL(AWS_BASE_URL)
             requestId == RequestIdOf(rq)
         IN /\ issued' = issued \cup {id}
            /\ req' = [req EXCEPT ![r] = rq]
            /\ IF url.ok
               THEN /\ hostname' = [hostname EXCEPT ![r] = url.hostname]
                    /\ log' = log \o <<EntryLog(rq, id),
                                       ResolvingLog(requestId, url.hostname)>>
                    /\ lookups' = [lookups EXCEPT ![r] = @ + 1]
                    /\ lookup' = [lookup EXCEPT ![r] = Pending]
                    /\ pc' = [pc EXCEPT ![r] = "awaiting"]
                    /\ res' = res
               ELSE /\ log' = log \o <<EntryLog(rq, id),
                                       ErrorLog(requestId, UrlError(url))>>
                    /\ Send(r, ErrorResponse(UrlError(url)))
                    /\ pc' = [pc EXCEPT ![r] = "sent"]
                    /\ UNCHANGED <<hostname, lookups, lookup>>
    /\ UNCHANGED <<env, harnessVars>>

\* the lookup resolves and the handler runs from line 293 to its response
LookupResolves(r) ==
    /\ pc[r] = "awaiting"
    /\ \E lk \in ResolverResults(hostname[r]) :
         LET got == Awaited(r, lk)
             ip == got.address
             requestId == RequestIdOf(req[r])
         IN /\ lookup' = [lookup EXCEPT ![r] =
                             [state |-> "resolved", result |-> lk, error |-> NoError]]
            /\ IF ~isIPv4(ip)
               THEN /\ log' = Append(log, NonIPv4Log(requestId, hostname[r], got))
                    /\ Send(r, BadGatewayResponse(hostname[r], got))
               ELSE /\ log' = Append(log, ResolvedLog(requestId, hostname[r], ip))
                    /\ Send(r, OkResponse(ip, hostname[r]))
    /\ pc' = [pc EXCEPT ![r] = "sent"]
    /\ UNCHANGED <<env, req, hostname, lookups, issued, harnessVars>>

\* a variant of the catch block that looks the name up again
LookupRejectsRetry(r) ==
    /\ pc[r] = "awaiting"
    /\ hostname[r] # ""
    /\ lookups' = [lookups EXCEPT ![r] = @ + 1]
    /\ UNCHANGED <<env, pc, req, hostname, lookup, res, log, issued, harnessVars>>

\* the lookup rejects and the handler runs its catch block
LookupRejects(r) ==
    /\ pc[r] = "awaiting"
    /\ hostname[r] # ""
    /\ \E code \in ErrorCodes :
         LET err == DnsError(code, hostname[r])
             requestId == RequestIdOf(req[r])
         IN /\ lookup' = [lookup EXCEPT ![r] =
                             [state |-> "rejected", result |-> NoResult, error |-> err]]
            /\ log' = Append(log, ErrorLog(requestId, err))
            /\ Send(r, ErrorResponse(err))
    /\ pc' = [pc EXCEPT ![r] = "sent"]
    /\ UNCHANGED <<env, req, hostname, lookups, issued, harnessVars>>

\* GET /client-ip: the middleware, then the handler through its response
ClientIpRoute(r, h, p) ==
    /\ Arrives(r)
    /\ \E id \in {randomUUID} :
         LET rq == NewReq("/client-ip", h, p, id)
             requestId == RequestIdOf(rq)
             callerIp == getClientIp(rq)
         IN /\ issued' = issued \cup {id}
            /\ req' = [req EXCEPT ![r] = rq]
            /\ log' = log \o <<EntryLog(rq, id), ClientIpLog(requestId, callerIp, rq)>>
            /\ Send(r, ClientIpResponse(rq))
    /\ pc' = [pc EXCEPT ![r] = "sent"]
    /\ UNCHANGED <<env, hostname, lookups, lookup, harnessVars>>

\* GET /openapi.json: the middleware, then res.json(swaggerSpec)
OpenapiRoute(r, h, p) ==
    /\ Arrives(r)
    /\ \E id \in {randomUUID} :
         LET rq == NewReq("/openapi.json", h, p, id)
         IN /\ issued' = issued \cup {id}
            /\ req' = [req EXCEPT ![r] = rq]
            /\ log' = Append(log, EntryLog(rq, id))
            /\ Send(r, OpenapiResponse)
    /\ pc' = [pc EXCEPT ![r] = "sent"]
    /\ UNCHANGED <<env, hostname, lookups, lookup, harnessVars>>

\* res.on("finish"): the response has been handed over; the listener logs the
\* middleware's own requestId and res.statusCode
Finish(r) ==
    /\ pc[r] = "sent"
    /\ log' = Append(log, FinishLog(req[r], req[r].requestId, res[r][Len(res[r])].status))
    /\ pc' = [pc EXCEPT ![r] = "finished"]
    /\ UNCHANGED <<env, req, hostname, lookups, lookup, res, issued, harnessVars>>

InitServer ==
    /\ pc = [r \in Reqs |-> "idle"]
    /\ req = [r \in Reqs |-> NoReq]
    /\ hostname = [r \in Reqs |-> ""]
    /\ lookups = [r \in Reqs |-> 0]
    /\ lookup = [r \in Reqs |-> NotCalled]
    /\ res = [r \in Reqs |-> <<>>]
    /\ log = <<>>
    /\ issued = {}

InitHarness == ipIn = <<>> /\ ipDone = FALSE /\ ipOut = FALSE

Init == env \in EnvValues /\ InitServer /\ InitHarness

Next ==
    \E r \in Reqs :
        \/ \E h \in HeadersPlain, p \in Peers : AwsPublicIpRoute(r, h, p)
        \/ \E h \in Headers, p \in Peers : ClientIpRoute(r, h, p)
        \/ \E h \in HeadersPlain, p \in Peers : OpenapiRoute(r, h, p)
        \/ LookupResolves(r)
        \/ LookupRejects(r)
        \/ Finish(r)

Spec == Init /\ [][Next]_vars

\* the resolver settles every lookup it was given, and node emits finish for
\* every response handed to it
LiveSpec ==
    /\ Spec
    /\ \A r \in Reqs : WF_vars(LookupResolves(r) \/ LookupRejects(r))
    /\ \A r \in Reqs : WF_vars(Finish(r))

----------------------------------------------------------------------------
(* The /client-ip route alone, over a wide range of headers *)

XffAlphabet == {"1", "a", " ", ","}

RECURSIVE TextsUpTo(_, _)
TextsUpTo(A, n) ==
    IF n = 0 THEN {<<>>}
    ELSE LET shorter == TextsUpTo(A, n - 1)
         IN shorter \cup {Append(t, c) : t \in {u \in shorter : Len(u) = n - 1}, c \in A}

\* a header value as node's HTTP parser delivers it: without leading or
\* trailing whitespace
Delivered(t) == t = <<>> \/ (t[1] # " " /\ t[Len(t)] # " ")

\* headers whose X-Forwarded-For has at most n characters, and the example
WideHeaders(n) ==
    { [xff |-> x, ua |-> u] :
        x \in {Undefined, Str(XffExample)}
              \cup {Str(t) : t \in {w \in TextsUpTo(XffAlphabet, n) : Delivered(w)}},
        u \in {Undefined, Str(<<>>), Str(UaExample)} }

WidePeers == {PeerA, PeerB}

NextHeaders ==
    \/ /\ Arrives(1)
       /\ \E h \in WideHeaders(MaxXffLen), p \in WidePeers : ClientIpRoute(1, h, p)
    \/ Finish(1)

InitHeaders == env = EnvUnset /\ InitServer /\ InitHarness

SpecHeaders == InitHeaders /\ [][NextHeaders]_vars

----------------------------------------------------------------------------
(* The validator alone, over a wide range of strings *)

Dot == <<".">>

OctetTexts ==
    { <<>>, <<"0">>, <<"9">>, <<"0", "1">>, <<"1", "0">>, <<"0", "9", "9">>,
      <<"1", "0", "0">>, <<"1", "9", "9">>, <<"2", "4", "9">>, <<"2", "5", "0">>,
      <<"2", "5", "5">>, <<"2", "5", "6">>, <<"3", "0", "0">>, <<"1", "a">>,
      <<"1", "0", "0", "0">> }

FewTexts == { <<"1">>, <<"2", "5", "5">>, <<"2", "5", "6">>, <<"0", "1">> }

Padding == { <<" ">>, <<"\n">>, <<"a">>, <<".">>, <<"1">> }

RECURSIVE Joins(_, _)
Joins(P, n) ==
    IF n = 1 THEN P
    ELSE {a \o Dot \o b : a \in P, b \in Joins(P, n - 1)}

\* strings of up to n dot-separated parts
IPv4Inputs(n) ==
    Joins(OctetTexts, 4)
    \cup UNION {Joins(FewTexts, k) : k \in 1..n}
    \cup {pad \o t : pad \in Padding, t \in Joins(FewTexts, 4)}
    \cup {t \o pad : pad \in Padding, t \in Joins(FewTexts, 4)}
    \cup {AddrV6, StringOf(Null), StringOf(Undefined)}

TestIPv4 ==
    /\ ~ipDone
    /\ ipOut' = isIPv4(Str(ipIn))
    /\ ipDone' = TRUE
    /\ UNCHANGED <<ipIn, serverVars>>

InitIPv4 ==
    /\ env = EnvUnset /\ InitServer
    /\ ipIn \in IPv4Inputs(MaxParts) /\ ipDone = FALSE /\ ipOut = FALSE

NextIPv4 == TestIPv4

SpecIPv4 == InitIPv4 /\ [][NextIPv4]_vars

----------------------------------------------------------------------------
(* Vocabulary of the properties *)

IsAws(r) == req[r].route = "/aws-public-ip"
IsClientIp(r) == req[r].route = "/client-ip"
Arrived(r) == pc[r] # "idle"
Answered(r) == Len(res[r]) >= 1

\* the hostname of the configured base URL, written out per configuration
ConfiguredHostname ==
    CASE env \in {EnvUnset, EnvSet("")} -> "ec2-34-202-126-158.compute-1.amazonaws.com"
      [] env = EnvSet("HTTP://Example.COM:8080/path") -> "example.com"
      [] env = EnvSet("file:///etc/hosts") -> ""
      [] OTHER -> "(no hostname)"

BaseUrlParses == env # EnvSet("not a url")

Resolved(r) == lookup[r].state = "resolved"
Rejected(r) == lookup[r].state = "rejected"

----------------------------------------------------------------------------
\* C1: whenever the lookup of a GET /aws-public-ip request returned an address
\* the IPv4 validator accepts, the one response of that request is 200 with
\* body {ok: true, method: "dns-lookup", ip, hostname}, ip being the address the
\* resolver returned and hostname the hostname of the configured base URL.
C1_ResolvedIPv4Gives200 ==
    \A r \in Reqs :
        (IsAws(r) /\ Resolved(r) /\ isIPv4(lookup[r].result.address)) =>
            res[r] = << [status |-> 200,
                         body |-> [ok |-> TRUE, method |-> "dns-lookup",
                                   ip |-> lookup[r].result.address,
                                   hostname |-> ConfiguredHostname]] >>

C1_Witness ==
    \E r \in Reqs :
        /\ IsAws(r) /\ Resolved(r) /\ lookup[r].result.address = Str(AddrA)
        /\ env = EnvSet("HTTP://Example.COM:8080/path")
        /\ Answered(r) /\ res[r][1].status = 200

\* C2: whenever the lookup of a GET /aws-public-ip request returned an address
\* the IPv4 validator rejects, the one response is 502 with ok: false, the
\* hostname and the resolver's result unchanged as raw; and no 200 response of
\* the route carries an ip the validator rejects.
C2_NonIPv4Gives502 ==
    \A r \in Reqs :
        /\ (IsAws(r) /\ Resolved(r) /\ ~isIPv4(lookup[r].result.address)) =>
              /\ Len(res[r]) = 1
              /\ res[r][1].status = 502
              /\ res[r][1].body.ok = FALSE
              /\ res[r][1].body.hostname = ConfiguredHostname
              /\ res[r][1].body.raw = lookup[r].result
        /\ \A i \in 1..Len(res[r]) :
              (IsAws(r) /\ res[r][i].status = 200) => isIPv4(res[r][i].body.ip)

C2_Witness ==
    \E r \in Reqs :
        /\ IsAws(r) /\ Resolved(r) /\ lookup[r].result.address = Str(AddrV6)
        /\ Answered(r) /\ res[r][1].status = 502

\* C3: whenever the lookup of a GET /aws-public-ip request raised an error, the
\* one response is 500 with ok: false and a non-empty message equal to the
\* error's message.
C3_LookupErrorGives500 ==
    \A r \in Reqs :
        (IsAws(r) /\ Rejected(r)) =>
            /\ Len(res[r]) = 1
            /\ res[r][1].status = 500
            /\ res[r][1].body.ok = FALSE
            /\ res[r][1].body.message = lookup[r].error.message
            /\ res[r][1].body.message # ""

C3_Witness ==
    \E r \in Reqs :
        /\ IsAws(r) /\ Rejected(r) /\ lookup[r].error.code = "ENOTFOUND"
        /\ Answered(r) /\ res[r][1].status = 500

\* C4 as claimed: a 500 of GET /aws-public-ip is sent only when the lookup
\* itself raised an error (so never for a request that attempted no lookup),
\* and a 502 only when the lookup succeeded with a non-IPv4 address.
C4_OnlyTwoFailureKinds ==
    \A r \in Reqs : \A i \in 1..Len(res[r]) :
        IsAws(r) =>
            /\ res[r][i].status \in {200, 500, 502}
            /\ res[r][i].status = 500 => (lookups[r] >= 1 /\ Rejected(r))
            /\ res[r][i].status = 502 =>
                  (Resolved(r) /\ ~isIPv4(lookup[r].result.address))

\* C4 as amended: a 500 is sent when the lookup raised an error, and also when
\* the configured base URL does not parse, in which case no lookup is
\* attempted; a 502 only when the lookup succeeded with a non-IPv4 address;
\* nothing else fails the request.
C4_ThreeFailureCauses ==
    \A r \in Reqs : \A i \in 1..Len(res[r]) :
        IsAws(r) =>
            /\ res[r][i].status \in {200, 500, 502}
            /\ res[r][i].status = 500 <=>
                  \/ lookups[r] = 1 /\ Rejected(r)
                  \/ lookups[r] = 0 /\ ~BaseUrlParses
            /\ res[r][i].status = 502 <=>
                  (BaseUrlParses /\ Resolved(r) /\ ~isIPv4(lookup[r].result.address))
            /\ res[r][i].status = 200 <=>
                  (BaseUrlParses /\ Resolved(r) /\ isIPv4(lookup[r].result.address))

C4_Witness ==
    \E r \in Reqs :
        /\ IsAws(r) /\ ~BaseUrlParses /\ lookups[r] = 0 /\ lookup[r].state = "none"
        /\ Answered(r) /\ res[r][1].status = 500
        /\ res[r][1].body.message = "Invalid URL"

----------------------------------------------------------------------------
(* Dotted-quad notation, stated apart from the regular expression *)

RECURSIVE SplitDots(_)
SplitDots(s) ==
    IF \A i \in 1..Len(s) : s[i] # "." THEN <<s>>
    ELSE LET k == CHOOSE i \in 1..Len(s) : s[i] = "." /\ \A j \in 1..(i-1) : s[j] # "."
         IN <<SubSeq(s, 1, k - 1)>> \o SplitDots(SubSeq(s, k + 1, Len(s)))

DigitValue(c) ==
    CASE c = "0" -> 0 [] c = "1" -> 1 [] c = "2" -> 2 [] c = "3" -> 3 [] c = "4" -> 4
      [] c = "5" -> 5 [] c = "6" -> 6 [] c = "7" -> 7 [] c = "8" -> 8 [] c = "9" -> 9

RECURSIVE DecimalValue(_)
DecimalValue(t) ==
    IF t = <<>> THEN 0
    ELSE 10 * DecimalValue(SubSeq(t, 1, Len(t) - 1)) + DigitValue(t[Len(t)])

\* a non-empty run of decimal digits with a value in [0,255]
DecimalOctet(t) ==
    t # <<>> /\ (\A i \in 1..Len(t) : t[i] \in Digits) /\ DecimalValue(t) <= 255

\* written without a leading zero
Canonical(t) == Len(t) = 1 \/ t[1] # "0"

FourDecimalOctets(s) ==
    LET parts == SplitDots(s)
    IN Len(parts) = 4 /\ \A i \in 1..4 : DecimalOctet(parts[i])

FourCanonicalOctets(s) ==
    LET parts == SplitDots(s)
    IN Len(parts) = 4 /\ \A i \in 1..4 : DecimalOctet(parts[i]) /\ Canonical(parts[i])

\* C5 as claimed: isIPv4 returns true exactly for the strings made of four
\* dot-separated decimal octets with values in [0,255] and nothing else.
C5_TrueIffFourDecimalOctets ==
    ipDone => (ipOut <=> FourDecimalOctets(ipIn))

\* C5 as amended: isIPv4 returns true exactly for the strings made of four
\* dot-separated decimal octets with values in [0,255], each written without
\* a leading zero, and nothing else.
C5_TrueIffFourCanonicalOctets ==
    ipDone => (ipOut <=> FourCanonicalOctets(ipIn))

C5_Witness ==
    /\ ipDone /\ ipOut
    /\ ipIn = <<"2", "5", "5", ".", "0", ".", "1", "9", "9", ".", "1", "0">>

C5_WitnessRejected ==
    /\ ipDone /\ ~ipOut
    /\ ipIn = <<"2", "5", "6", ".", "0", ".", "1", "9", "9", ".", "1", "0">>

----------------------------------------------------------------------------
\* t is e with whitespace around it, and e has none at either end
Trimmed(t, e) ==
    /\ e = <<>> \/ (e[1] \notin Whitespace /\ e[Len(e)] \notin Whitespace)
    /\ \E a \in 0..Len(t) :
          /\ a + Len(e) <= Len(t)
          /\ SubSeq(t, a + 1, a + Len(e)) = e
          /\ \A i \in 1..Len(t) : (i <= a \/ i > a + Len(e)) => t[i] \in Whitespace

\* e is the first comma-separated entry of x, trimmed
FirstEntryTrimmed(x, e) ==
    \E k \in 0..Len(x) :
        /\ \A i \in 1..k : x[i] # ","
        /\ k = Len(x) \/ x[k + 1] = ","
        /\ Trimmed(SubSeq(x, 1, k), e)

\* C6: the callerIp of every GET /client-ip response is the first
\* comma-separated entry of X-Forwarded-For, trimmed and not validated, when
\* that header is present and non-empty, and the peer address otherwise.
C6_CallerIp ==
    \A r \in Reqs :
        (IsClientIp(r) /\ Arrived(r)) =>
            /\ Len(res[r]) = 1
            /\ IF req[r].xff.t = "string" /\ req[r].xff.v # <<>>
               THEN FirstEntryTrimmed(req[r].xff.v, res[r][1].body.callerIp)
               ELSE Str(res[r][1].body.callerIp) = req[r].remoteAddress
            /\ req[r].xff = Str(XffExample) =>
                  res[r][1].body.callerIp =
                      <<"2", "0", "3", ".", "0", ".", "1", "1", "3", ".", "1", "0">>

C6_Witness ==
    /\ IsClientIp(1) /\ Answered(1)
    /\ req[1].xff = Str(<<"a", " ", ",", "1">>)
    /\ res[1][1].body.callerIp = <<"a">>

C6_WitnessPeer ==
    /\ IsClientIp(1) /\ Answered(1)
    /\ req[1].xff = Undefined
    /\ res[1][1].body.callerIp = PeerB

\* C7: GET /client-ip always answers 200 with ok: true, whatever the
\* X-Forwarded-For and User-Agent headers; an absent header is reported as
\* null; a non-null forwardedFor is the header's value unchanged.
C7_ClientIpAlways200 ==
    \A r \in Reqs :
        (IsClientIp(r) /\ Arrived(r)) =>
            /\ Len(res[r]) = 1
            /\ res[r][1].status = 200
            /\ res[r][1].body.ok = TRUE
            /\ req[r].xff = Undefined => res[r][1].body.forwardedFor = Null
            /\ req[r].ua = Undefined => res[r][1].body.userAgent = Null
            /\ res[r][1].body.forwardedFor # Null =>
                  res[r][1].body.forwardedFor = req[r].xff

C7_Witness ==
    /\ IsClientIp(1) /\ Answered(1)
    /\ req[1].xff = Undefined /\ req[1].ua = Str(<<>>)
    /\ res[1][1].status = 200 /\ res[1][1].body.forwardedFor = Null

----------------------------------------------------------------------------
\* the fields of a complete body, per status of GET /aws-public-ip
CompleteBody(response) ==
    CASE response.status = 200 ->
            DOMAIN response.body = {"ok", "method", "ip", "hostname"}
      [] response.status = 502 ->
            DOMAIN response.body = {"ok", "error", "hostname", "raw"}
      [] response.status = 500 ->
            DOMAIN response.body = {"ok", "error", "message"}
      [] OTHER -> FALSE

\* C8: a GET /aws-public-ip request makes at most one DNS lookup and is never
\* answered twice, its response is a complete 200, 502 or 500, and, the
\* resolver settling every lookup, the request is eventually answered once.
C8_OneLookupOneResponse ==
    /\ [](\A r \in Reqs :
            /\ lookups[r] <= 1
            /\ Len(res[r]) <= 1
            /\ (IsAws(r) /\ Answered(r)) => CompleteBody(res[r][1]))
    /\ \A r \in Reqs : (IsAws(r) ~> (Len(res[r]) = 1 /\ pc[r] = "finished"))

C8_Witness ==
    \E r \in Reqs :
        /\ IsAws(r) /\ Rejected(r) /\ lookups[r] = 1
        /\ Len(res[r]) = 1 /\ pc[r] = "finished"

----------------------------------------------------------------------------
\* the response a request is due, from its own headers, peer address,
\* identifier and resolver outcome and from the configuration
DueResponse(r) ==
    CASE req[r].route = "/openapi.json" ->
            [status |-> 200,
             body |-> [openapi |-> "3.0.0", paths |-> {"/aws-public-ip", "/client-ip"}]]
      [] req[r].route = "/client-ip" ->
            [status |-> 200,
             body |-> [ok |-> TRUE,
                       callerIp |-> IF req[r].xff = Str(XffExample)
                                    THEN <<"2", "0", "3", ".", "0", ".", "1", "1", "3", ".", "1", "0">>
                                    ELSE req[r].remoteAddress.v,
                       forwardedFor |-> IF req[r].xff = Undefined THEN Null ELSE req[r].xff,
                       userAgent |-> IF req[r].ua = Undefined THEN Null ELSE req[r].ua,
                       requestId |-> req[r].requestId]]
      [] req[r].route = "/aws-public-ip" /\ ~BaseUrlParses ->
            [status |-> 500,
             body |-> [ok |-> FALSE, error |-> "Failed to determine AWS public IP",
                       message |-> "Invalid URL"]]
      [] req[r].route = "/aws-public-ip" /\ BaseUrlParses /\ Rejected(r) ->
            [status |-> 500,
             body |-> [ok |-> FALSE, error |-> "Failed to determine AWS public IP",
                       message |-> lookup[r].error.message]]
      [] req[r].route = "/aws-public-ip" /\ BaseUrlParses /\ Resolved(r)
            /\ lookup[r].result.family = 4 /\ lookup[r].result.address # Null ->
            [status |-> 200,
             body |-> [ok |-> TRUE, method |-> "dns-lookup",
                       ip |-> lookup[r].result.address,
                       hostname |-> ConfiguredHostname]]
      [] req[r].route = "/aws-public-ip" /\ BaseUrlParses /\ Resolved(r)
            /\ ~(lookup[r].result.family = 4 /\ lookup[r].result.address # Null) ->
            [status |-> 502,
             body |-> [ok |-> FALSE,
                       error |-> "DNS lookup did not return a valid IPv4 address",
                       hostname |-> ConfiguredHostname,
                       raw |-> lookup[r].result]]

\* C9: while a GET /aws-public-ip request waits for its lookup, a newly
\* arriving request of any route can be taken and another waiting request can
\* be resumed; and every response sent is the one due to its own request,
\* whatever the other requests were given and in whatever order they ran.
C9_RequestsIndependent ==
    /\ \A r \in Reqs : \A q \in Reqs \ {r} :
          pc[r] = "awaiting" =>
             /\ Arrives(q) =>
                   /\ \A h \in Headers : ENABLED ClientIpRoute(q, h, PeerA)
                   /\ \A h \in HeadersPlain : ENABLED AwsPublicIpRoute(q, h, PeerA)
                   /\ \A h \in HeadersPlain : ENABLED OpenapiRoute(q, h, PeerA)
             /\ pc[q] = "awaiting" => ENABLED LookupResolves(q)
             /\ pc[q] = "sent" => ENABLED Finish(q)
    /\ \A r \in Reqs :
          /\ Answered(r) => res[r] = <<DueResponse(r)>>
          /\ pc[r] \in {"sent", "finished"} => Answered(r)

\* a request was answered while an earlier one was still waiting, and the two
\* lookups of the run settled differently
C9_Witness ==
    /\ MaxReqs >= 2
    /\ IsAws(1) /\ IsAws(2)
    /\ pc[1] = "finished" /\ pc[2] = "finished"
    /\ Resolved(1) /\ lookup[1].result.address = Str(AddrA)
    /\ Resolved(2) /\ lookup[2].result.address = Str(AddrV6)
    /\ \E i, j \in 1..Len(log) :
          /\ i < j
          /\ log[i].tag = "<--" /\ log[i].id = req[2].requestId
          /\ log[j].tag = "Resolved AWS IP OK" /\ log[j].id = req[1].requestId

----------------------------------------------------------------------------
LogOf(id) == {i \in 1..Len(log) : log[i].id = id}
EntriesOf(id) == {i \in LogOf(id) : log[i].tag = "-->"}
CompletionsOf(id) == {i \in LogOf(id) : log[i].tag = "<--"}

\* C10: every request gets its own identifier, different from every other
\* request's; its entry record is logged before anything its handler logs; one
\* completion record, with the same identifier and the status sent, is logged
\* once the response has finished and none before; and the requestId of a
\* /client-ip body is the identifier of that request.
C10_RequestCorrelation ==
    /\ \A i \in 1..Len(log) : \E r \in Reqs : Arrived(r) /\ log[i].id = req[r].requestId
    /\ \A r \in Reqs : Arrived(r) =>
          LET id == req[r].requestId IN
          /\ id \in issued
          /\ \A q \in Reqs \ {r} : Arrived(q) => req[q].requestId # id
          /\ Cardinality(EntriesOf(id)) = 1
          /\ \A e \in EntriesOf(id) : \A i \in LogOf(id) : e <= i
          /\ Cardinality(CompletionsOf(id)) = (IF pc[r] = "finished" THEN 1 ELSE 0)
          /\ \A c \in CompletionsOf(id) :
                /\ \A i \in LogOf(id) : i <= c
                /\ Len(res[r]) = 1
                /\ log[c].status = res[r][1].status
          /\ (IsClientIp(r) /\ Answered(r)) => res[r][1].body.requestId = id

\* two requests interleave: the second is finished while the first waits, and
\* the first then fails with its own status
C10_Witness ==
    /\ MaxReqs >= 2
    /\ IsAws(1) /\ IsClientIp(2)
    /\ pc[1] = "finished" /\ pc[2] = "finished"
    /\ res[1][1].status = 502
    /\ \E i, j, k \in 1..Len(log) :
          /\ i < j /\ j < k
          /\ log[i].tag = "-->" /\ log[i].id = req[1].requestId
          /\ log[j].tag = "<--" /\ log[j].id = req[2].requestId /\ log[j].status = 200
          /\ log[k].tag = "<--" /\ log[k].id = req[1].requestId /\ log[k].status = 502

====
